---- MODULE Spec2Model ----
(***************************************************************************)
(* State machine of cartgame.py (MiningGame): the simulation core (update, *)
(* the two cart state machines, transfer / withdrawal / sale, the price    *)
(* engine) and the command interface (add_cart, convert_to_*, upgrade,     *)
(* the resource toggles).                                                  *)
(*                                                                         *)
(* Numbers.  The program computes with Python ints and floats; the model   *)
(* uses integers in fixed units:                                           *)
(*   amounts, capacity, speed, mining_speed, cart_stats : 1/1000   (Milli) *)
(*   positions and distances                            : 1/10 px  (Deci)  *)
(*   time (time.time(), delta_time)                     : 1/10 s   (Deci)  *)
(*   money and prices                                   : 1/100    (Cent)  *)
(*   price momentum and random_force                    : 1/10000  (Bp)    *)
(*   upgrade costs                                      : 1 (they are ints)*)
(* A product of two scaled numbers is divided by the scale and truncated   *)
(* toward zero.                                                            *)
(***************************************************************************)
EXTENDS Integers, Sequences, FiniteSets, TLC

\* ---------------------------------------------------------------- units
Milli == 10 * 100
Deci == 2 * 5
Cent == 10 * 10
Bp == 100 * 100

\* ------------------------------------------------- constants of the code
SCREEN_WIDTH == 1440
SCREEN_HEIGHT == 900
PRICE_HISTORY_LENGTH == 50
\* 0.7, in tenths
PRICE_MOMENTUM_FACTOR == 7
\* 0.03, in Bp
PRICE_VOLATILITY == 300
\* pixels
POSITION_TOLERANCE == 10
\* add_cart: cart_cost
cart_cost == 500
\* self.price_update_interval = 5.0 seconds
price_update_interval == 5
\* vertical_offset = i * 5
OFFSET_STEP == 5
\* the margin of the mine and of the market from the screen's edges
EDGE_MARGIN == 100

Resources == {"iron", "copper", "gold"}
\* iteration order of self.resources, self.market_prices and station.storage
ResourceOrder == <<"iron", "copper", "gold">>
UpgradeKinds == {"capacity", "speed", "mining", "processing", "storage"}
StatKinds == {"capacity", "speed", "mining"}

\* Resource.base_value
base_value(r) == CASE r = "iron" -> 10 [] r = "copper" -> 15 [] r = "gold" -> 50
\* Resource.rarity, in tenths
rarity(r) == CASE r = "iron" -> 8 [] r = "copper" -> 6 [] r = "gold" -> 2

mine_pos == [x |-> EDGE_MARGIN * Deci, y |-> (SCREEN_HEIGHT \div 2) * Deci]
station_pos == [x |-> (SCREEN_WIDTH \div 2) * Deci, y |-> (SCREEN_HEIGHT \div 2) * Deci]
market_pos == [x |-> (SCREEN_WIDTH - EDGE_MARGIN) * Deci, y |-> (SCREEN_HEIGHT \div 2) * Deci]

\* ------------------------------------------------------------ arithmetic
Min(a, b) == IF a <= b THEN a ELSE b
Max(a, b) == IF a >= b THEN a ELSE b
\* division truncated toward zero (b > 0)
TDiv(a, b) == IF a >= 0 THEN a \div b ELSE -((-a) \div b)
\* Python int(v) of a Milli value v >= 0
IntPart(v) == (v \div Milli) * Milli

RECURSIVE ISqrtIn(_, _, _)
ISqrtIn(n, lo, hi) ==
    IF lo >= hi THEN lo
    ELSE LET mid == (lo + hi + 1) \div 2
         IN IF mid * mid <= n THEN ISqrtIn(n, mid, hi) ELSE ISqrtIn(n, lo, mid - 1)
\* floor of the square root
ISqrt(n) == ISqrtIn(n, 0, 46340)

\* --------------------------------------- a Python dict in insertion order
\* cart.contents: a sequence of [k |-> resource, v |-> amount]
HasKey(d, k) == \E i \in 1..Len(d) : d[i].k = k
DictGet(d, k, default) ==
    IF HasKey(d, k) THEN d[CHOOSE i \in 1..Len(d) : d[i].k = k].v ELSE default
DictSet(d, k, v) ==
    IF HasKey(d, k)
    THEN [i \in 1..Len(d) |-> IF d[i].k = k THEN [k |-> k, v |-> v] ELSE d[i]]
    ELSE Append(d, [k |-> k, v |-> v])
RECURSIVE SumValues(_)
SumValues(d) == IF d = <<>> THEN 0 ELSE Head(d).v + SumValues(Tail(d))

\* sum(self.station.storage.values())
SumStorage(storage) == storage["iron"] + storage["copper"] + storage["gold"]

\* ------------------------------------------------------------------ Cart
get_contents_amount(cart) == SumValues(cart.contents)
is_full(cart) == SumValues(cart.contents) >= cart.capacity

\* --------------------------------------------- transfer, withdrawal, sale
\* transfer_to_station: the loop over cart.contents.items(), from item j on
RECURSIVE TransferItems(_, _, _)
TransferItems(j, cart, station) ==
    IF j > Len(cart.contents) THEN [cart |-> cart, station |-> station]
    ELSE LET resource_name == cart.contents[j].k
             amount == cart.contents[j].v
             transfer_amount ==
                 Min(amount, station.storage_capacity - SumStorage(station.storage))
         IN IF transfer_amount > 0
            THEN TransferItems(j + 1,
                     [cart EXCEPT !.contents[j].v = 0],
                     [station EXCEPT !.storage[resource_name] = @ + transfer_amount])
            ELSE TransferItems(j + 1, cart, station)

\* transfer_to_station without the ceiling: every item is moved whole
RECURSIVE TransferAll(_, _, _)
TransferAll(j, cart, station) ==
    IF j > Len(cart.contents) THEN [cart |-> cart, station |-> station]
    ELSE TransferAll(j + 1,
             [cart EXCEPT !.contents[j].v = 0],
             [station EXCEPT !.storage[cart.contents[j].k] = @ + cart.contents[j].v])
transfer_unbounded(cart, station) == TransferAll(1, cart, station)

transfer_to_station(cart, station) == TransferItems(1, cart, station)

\* load_from_station: the loop over station.storage.items(), from item j on
RECURSIVE LoadItems(_, _, _, _, _, _)
LoadItems(j, cart, station, enabled, space_left, loaded_something) ==
    IF j > Len(ResourceOrder)
    THEN [cart |-> cart, station |-> station, loaded |-> loaded_something]
    ELSE LET resource == ResourceOrder[j]
             amount == station.storage[resource]
             take == amount > 0 /\ enabled[resource]
             transfer_amount == Min(amount, space_left)
             cart1 == IF take
                      THEN [cart EXCEPT !.contents =
                               DictSet(@, resource, DictGet(@, resource, 0) + transfer_amount)]
                      ELSE cart
             station1 == IF take
                         THEN [station EXCEPT !.storage[resource] = @ - transfer_amount]
                         ELSE station
             space1 == IF take THEN space_left - transfer_amount ELSE space_left
             loaded1 == loaded_something \/ take
         IN IF space1 <= 0
            THEN [cart |-> cart1, station |-> station1, loaded |-> loaded1]
            ELSE LoadItems(j + 1, cart1, station1, enabled, space1, loaded1)

\* load_from_station without the test of resource_selling_enabled
load_any_resource(cart, station, enabled) ==
    IF SumValues(cart.contents) >= cart.capacity
    THEN [cart |-> cart, station |-> station, loaded |-> FALSE]
    ELSE LoadItems(1, cart, station, [r \in Resources |-> TRUE],
                   cart.capacity - SumValues(cart.contents), FALSE)

\* load_from_station with the station's capacity taken for the cart's
load_up_to_storage_capacity(cart, station, enabled) ==
    IF is_full(cart)
    THEN [cart |-> cart, station |-> station, loaded |-> FALSE]
    ELSE LoadItems(1, cart, station, enabled,
                   station.storage_capacity - get_contents_amount(cart), FALSE)

load_from_station(cart, station, enabled) ==
    IF is_full(cart)
    THEN [cart |-> cart, station |-> station, loaded |-> FALSE]
    ELSE LoadItems(1, cart, station, enabled,
                   cart.capacity - get_contents_amount(cart), FALSE)

\* price (Cent) x amount (Milli), in Cent
SalePrice(price, amount) ==
    price * (amount \div Milli) + (price * (amount % Milli)) \div Milli

\* sell_cart_resources: the loop over cart.contents.items(), from item j on
RECURSIVE SellItems(_, _, _, _)
SellItems(j, cart, station, prices) ==
    IF j > Len(cart.contents) THEN [cart |-> cart, station |-> station]
    ELSE LET resource_name == cart.contents[j].k
             amount == cart.contents[j].v
         IN IF amount > 0
            THEN SellItems(j + 1,
                     [cart EXCEPT !.contents[j].v = 0],
                     [station EXCEPT !.money = @ + SalePrice(prices[resource_name], amount)],
                     prices)
            ELSE SellItems(j + 1, cart, station, prices)

\* sell_cart_resources at the resources' base values
sell_at_base_value(cart, station, prices) ==
    SellItems(1, cart, station, [r \in Resources |-> base_value(r) * Cent])

sell_cart_resources(cart, station, prices) == SellItems(1, cart, station, prices)

\* -------------------------------------------------------------- movement
\* the target of cart number i (1-based; enumerate() counts from 0)
VerticalOffset(i) == (i - 1) * OFFSET_STEP * Deci
Target(pos, vertical_offset) == [x |-> pos.x, y |-> pos.y + vertical_offset]
\* dx**2 + dy**2
Dist2(cart, target) ==
    (target.x - cart.x) * (target.x - cart.x) + (target.y - cart.y) * (target.y - cart.y)
\* dist <= POSITION_TOLERANCE
ArrivedInclusive(cart, target) ==
    Dist2(cart, target) <= (POSITION_TOLERANCE * Deci) * (POSITION_TOLERANCE * Deci)
\* dist < POSITION_TOLERANCE, as dist**2 < POSITION_TOLERANCE**2 (both >= 0)
Arrived(cart, target) ==
    Dist2(cart, target) < (POSITION_TOLERANCE * Deci) * (POSITION_TOLERANCE * Deci)
\* the move with twice the step
MoveTowardsTwice(cart, target, delta_time) ==
    LET dx == target.x - cart.x
        dy == target.y - cart.y
        dist == ISqrt(dx * dx + dy * dy)
        step == (2 * cart.speed * delta_time) \div Milli
    IN [cart EXCEPT !.x = @ + TDiv(dx * step, dist), !.y = @ + TDiv(dy * step, dist)]
\* cart.x += (dx / dist) * cart.speed * delta_time, and the same for y;
\* used only where dist >= POSITION_TOLERANCE
MoveTowards(cart, target, delta_time) ==
    LET dx == target.x - cart.x
        dy == target.y - cart.y
        dist == ISqrt(dx * dx + dy * dy)
        step == (cart.speed * delta_time) \div Milli
    IN [cart EXCEPT !.x = @ + TDiv(dx * step, dist), !.y = @ + TDiv(dy * step, dist)]
SnapTo(cart, target) == [cart EXCEPT !.x = target.x, !.y = target.y]

\* ---------------------------------------------------------------- mining
\* resource.rarity * cart.mining_speed * delta_time * 2, times 10 * Milli * Deci
ExtractChance(r, cart, delta_time) == rarity(r) * cart.mining_speed * delta_time * 2
\* random.random() is in [0, 1): the test random.random() < p is certainly
\* true for p >= 1, certainly false for p <= 0, and either otherwise
Rolls(cart, delta_time) ==
    { S \in SUBSET Resources :
        \A r \in Resources :
            /\ ExtractChance(r, cart, delta_time) >= 10 * Milli * Deci => r \in S
            /\ ExtractChance(r, cart, delta_time) <= 0 => r \notin S }

\* the mining loop over self.resources.items(), from item j on; roll is the
\* set of resources whose random test succeeded
RECURSIVE MineItems(_, _, _)
MineItems(j, cart, roll) ==
    IF j > Len(ResourceOrder) THEN cart
    ELSE LET resource_name == ResourceOrder[j]
         IN IF resource_name \in roll
            THEN MineItems(j + 1,
                     [cart EXCEPT !.contents =
                         DictSet(@, resource_name, DictGet(@, resource_name, 0) + Milli)],
                     roll)
            ELSE MineItems(j + 1, cart, roll)

\* ----------------------------------------------------- cart state machines
\* Each returns the cart and the station after the call, and what the call did.
Outcome(kind, cart, station, ok) ==
    [kind |-> kind, cart |-> cart, station |-> station, ok |-> ok]

\* whether this tick runs the mining loop for the cart
Mines(cart, vertical_offset) ==
    /\ cart.cart_type = "mining"
    /\ cart.state = "mining"
    /\ Arrived(cart, Target(mine_pos, vertical_offset))
    /\ ~is_full(cart)

\* the mining branch with the second is_full test nested under the first
mining_at_mine_nested(cart, station, target, roll) ==
    IF SumValues(cart.contents) < cart.capacity
    THEN LET mined == MineItems(1, cart, roll)
         IN IF SumValues(mined.contents) >= mined.capacity
            THEN Outcome("mine", SnapTo([mined EXCEPT !.state = "returning"], target),
                         station, TRUE)
            ELSE Outcome("mine", mined, station, FALSE)
    ELSE Outcome("mine", cart, station, FALSE)

\* update_mining_cart, state mining, within tolerance of the mine
mining_at_mine(cart, station, target, roll) ==
    LET mined == IF ~is_full(cart) THEN MineItems(1, cart, roll) ELSE cart
    IN IF is_full(mined)
       THEN Outcome("mine", SnapTo([mined EXCEPT !.state = "returning"], target),
                    station, TRUE)
       ELSE Outcome("mine", mined, station, FALSE)

update_mining_cart(cart, station, vertical_offset, delta_time, roll) ==
    IF cart.state = "mining"
    THEN LET target == Target(mine_pos, vertical_offset)
         IN IF Arrived(cart, target)
            THEN mining_at_mine(cart, station, target, roll)
            ELSE Outcome("move", MoveTowards(cart, target, delta_time), station, FALSE)
    ELSE IF cart.state = "returning"
    THEN LET target == Target(station_pos, vertical_offset)
         IN IF Arrived(cart, target)
            THEN LET t == transfer_to_station(cart, station)
                 IN Outcome("transfer", SnapTo([t.cart EXCEPT !.state = "mining"], target),
                            t.station, TRUE)
            ELSE Outcome("move", MoveTowards(cart, target, delta_time), station, FALSE)
    ELSE Outcome("none", cart, station, FALSE)

\* the loading branch without the test of load_from_station's result
loading_at_station_always(cart, station, enabled, target) ==
    LET l == load_from_station(cart, station, enabled)
    IN Outcome("load", SnapTo([l.cart EXCEPT !.state = "selling"], target), l.station, l.loaded)

\* update_market_cart, state loading, within tolerance of the station
loading_at_station(cart, station, enabled, target) ==
    LET l == load_from_station(cart, station, enabled)
    IN IF l.loaded
       THEN Outcome("load", SnapTo([l.cart EXCEPT !.state = "selling"], target),
                    l.station, TRUE)
       ELSE Outcome("load", l.cart, l.station, FALSE)

update_market_cart(cart, station, enabled, prices, vertical_offset, delta_time) ==
    IF cart.state = "loading"
    THEN LET target == Target(station_pos, vertical_offset)
         IN IF Arrived(cart, target)
            THEN loading_at_station(cart, station, enabled, target)
            ELSE Outcome("move", MoveTowards(cart, target, delta_time), station, FALSE)
    ELSE IF cart.state = "selling"
    THEN LET target == Target(market_pos, vertical_offset)
         IN IF Arrived(cart, target)
            THEN LET s == sell_cart_resources(cart, station, prices)
                 IN Outcome("sell", SnapTo([s.cart EXCEPT !.state = "loading"], target),
                            s.station, TRUE)
            ELSE Outcome("move", MoveTowards(cart, target, delta_time), station, FALSE)
    ELSE Outcome("none", cart, station, FALSE)

\* update: the loop over enumerate(self.carts), from cart i on.  w holds the
\* carts and the station so far and the log of what each cart's call did.
RECURSIVE UpdateCarts(_, _, _, _, _, _)
UpdateCarts(i, w, enabled, prices, delta_time, rolls) ==
    IF i > Len(w.carts) THEN w
    ELSE LET cart == w.carts[i]
             o == IF cart.cart_type = "mining"
                  THEN update_mining_cart(cart, w.station, VerticalOffset(i), delta_time, rolls[i])
                  ELSE update_market_cart(cart, w.station, enabled, prices,
                                          VerticalOffset(i), delta_time)
             entry == [i |-> i, kind |-> o.kind, ok |-> o.ok,
                       cart0 |-> cart, cart1 |-> o.cart,
                       station0 |-> w.station, station1 |-> o.station,
                       prices |-> prices, enabled |-> enabled]
         IN UpdateCarts(i + 1,
                [carts |-> [w.carts EXCEPT ![i] = o.cart],
                 station |-> o.station,
                 log |-> Append(w.log, entry)],
                enabled, prices, delta_time, rolls)

\* ----------------------------------------------------------- price engine
ForceSet == {-PRICE_VOLATILITY, 0, PRICE_VOLATILITY}

\* the body of the loop of update_market_prices for one resource
NextMomentum(momentum, random_force) ==
    TDiv(momentum * PRICE_MOMENTUM_FACTOR + random_force * (10 - PRICE_MOMENTUM_FACTOR), 10)
\* the new price without the bounds
NextPriceUnbounded(resource, current_price, momentum) ==
    current_price + TDiv(current_price * momentum, Bp)
NextPrice(resource, current_price, momentum) ==
    LET base_price == base_value(resource) * Cent
        new_price == current_price + TDiv(current_price * momentum, Bp)
    IN Max(base_price \div 2, Min(base_price * 2, new_price))

\* update_market_prices without the test of the time
update_market_prices_ungated(pe, current_time, forces) ==
    LET momentum == [r \in Resources |->
                        NextMomentum(pe.price_momentum[r], forces[r])]
        prices == [r \in Resources |->
                      NextPrice(r, pe.market_prices[r], momentum[r])]
    IN [market_prices |-> prices,
        price_momentum |-> momentum,
        price_history |-> [r \in Resources |->
                              Append(Tail(pe.price_history[r]), prices[r])],
        last_price_update |-> current_time]

\* update_market_prices with pop() in place of pop(0): the newest entry of the
\* history is removed
update_market_prices_pop_last(pe, current_time, forces) ==
    IF current_time - pe.last_price_update >= price_update_interval * Deci
    THEN LET momentum == [r \in Resources |->
                             NextMomentum(pe.price_momentum[r], forces[r])]
             prices == [r \in Resources |->
                           NextPrice(r, pe.market_prices[r], momentum[r])]
         IN [market_prices |-> prices,
             price_momentum |-> momentum,
             price_history |-> [r \in Resources |->
                 Append(SubSeq(pe.price_history[r], 1, Len(pe.price_history[r]) - 1),
                        prices[r])],
             last_price_update |-> current_time]
    ELSE pe

\* update_market_prices on the price engine's fields pe, at time.time() =
\* current_time, with the draws of random.uniform per resource
update_market_prices(pe, current_time, forces) ==
    IF current_time - pe.last_price_update >= price_update_interval * Deci
    THEN LET momentum == [r \in Resources |->
                             NextMomentum(pe.price_momentum[r], forces[r])]
             prices == [r \in Resources |->
                           NextPrice(r, pe.market_prices[r], momentum[r])]
         IN [market_prices |-> prices,
             price_momentum |-> momentum,
             price_history |-> [r \in Resources |->
                                   Append(Tail(pe.price_history[r]), prices[r])],
             last_price_update |-> current_time]
    ELSE pe

\* ----------------------------------------------------------------- state
VARIABLES
    carts,                    \* self.carts: the list of Cart
    station,                  \* self.station: the fields of Station
    cart_stats,               \* self.cart_stats (GlobalCartStats)
    market_prices,            \* self.market_prices
    price_momentum,           \* self.price_momentum
    price_history,            \* self.price_history
    last_update,              \* self.last_update
    last_price_update,        \* self.last_price_update
    resource_selling_enabled, \* self.resource_selling_enabled
    last_call,                \* observation: the last command and its result
    log,                      \* observation: what each cart's call did in the last update
    commands,                 \* observation: the number of commands issued
    ticks                     \* observation: the number of calls of update

vars == <<carts, station, cart_stats, market_prices, price_momentum, price_history,
          last_update, last_price_update, resource_selling_enabled,
          last_call, log, commands, ticks>>

\* ---------------------------------------------------------------- bounds
\* a run makes at most MaxTicks calls of update and MaxCommands commands, and
\* holds at most MaxCarts carts
MaxTicks == 3
MaxCommands == 1
MaxCarts == 2
\* the frame times of update: a short frame and a long one (Deci seconds)
DtSet == {1, 16}

\* ---------------------------------------------------------- construction
\* a cart built in state mining whatever its type
NewCartMining(stats, cart_type) ==
    [x |-> station_pos.x, y |-> station_pos.y,
     capacity |-> stats["capacity"], speed |-> stats["speed"],
     mining_speed |-> stats["mining"],
     contents |-> <<>>,
     cart_type |-> cart_type,
     state |-> "mining"]

\* Cart(...) as __init__ and add_cart build it
NewCart(stats, cart_type) ==
    [x |-> station_pos.x, y |-> station_pos.y,
     capacity |-> stats["capacity"], speed |-> stats["speed"],
     mining_speed |-> stats["mining"],
     contents |-> <<>>,
     cart_type |-> cart_type,
     state |-> IF cart_type = "mining" THEN "mining" ELSE "loading"]

\* Station.__init__
NewStation ==
    [storage |-> [r \in Resources |-> 0],
     processing_speed |-> 1 * Milli,
     storage_capacity |-> 1000 * Milli,
     money |-> 1000 * Cent,
     upgrade_costs |-> [k \in UpgradeKinds |->
         CASE k = "capacity" -> 1000 [] k = "speed" -> 1500 [] k = "mining" -> 2000
           [] k = "processing" -> 2500 [] k = "storage" -> 3000],
     \* in tenths
     upgrade_multipliers |-> [k \in UpgradeKinds |->
         CASE k = "capacity" -> 15 [] k = "speed" -> 13 [] k = "mining" -> 14
           [] k = "processing" -> 12 [] k = "storage" -> 20]]

NewCartStats ==
    [k \in StatKinds |->
        CASE k = "capacity" -> 50 * Milli [] k = "speed" -> 100 * Milli
          [] k = "mining" -> 3 * Milli]

NoCall == [op |-> "init", arg |-> "", ok |-> TRUE]

\* MiningGame.__init__: the state after construction (time counted from it)
Constructed ==
    [carts |-> <<NewCart(NewCartStats, "mining")>>,
     station |-> NewStation,
     cart_stats |-> NewCartStats,
     market_prices |-> [r \in Resources |-> base_value(r) * Cent],
     price_momentum |-> [r \in Resources |-> 0],
     price_history |-> [r \in Resources |->
         [n \in 1..PRICE_HISTORY_LENGTH |-> base_value(r) * Cent]],
     last_update |-> 0,
     last_price_update |-> 0,
     resource_selling_enabled |-> [r \in Resources |-> TRUE]]

\* cart.contents holding the given whole amounts, in insertion order
Holding(items) ==
    [j \in 1..Len(items) |-> [k |-> items[j][1], v |-> items[j][2] * Milli]]
Stored(iron, copper, gold) ==
    [r \in Resources |->
        (CASE r = "iron" -> iron [] r = "copper" -> copper [] r = "gold" -> gold) * Milli]

(***************************************************************************)
(* The runs start from the constructed game and from states the game       *)
(* reaches later, each named with a run that leads to it (in every one the *)
(* price draws so far were 0, so prices, momentum and history are as       *)
(* constructed, and a price update has just fired unless said otherwise).  *)
(* A trip on which every tick extracted at most one unit ends with the     *)
(* cart holding exactly its capacity.                                      *)
(***************************************************************************)
\* the first cart has reached the mine in steps of 10 px and mined 30 iron
\* and 19 copper
AtMine ==
    [Constructed EXCEPT
        !.carts[1].x = mine_pos.x,
        !.carts[1].contents = Holding(<<<<"iron", 30>>, <<"copper", 19>>>>)]
\* the capacity upgrade was bought first (capacity 75, money 0); after 13
\* trips of 75 iron each the cart is on its way back with 40 iron and 35
\* copper, 160 px from the station
ReturningToNearlyFull ==
    [Constructed EXCEPT
        !.station.money = 0,
        !.station.upgrade_costs["capacity"] = 1500,
        !.cart_stats["capacity"] = 75 * Milli,
        !.carts[1].capacity = 75 * Milli,
        !.station.storage = Stored(975, 0, 0),
        !.carts[1].x = station_pos.x - 160 * Deci,
        !.carts[1].state = "returning",
        !.carts[1].contents = Holding(<<<<"iron", 40>>, <<"copper", 35>>>>)]
\* after 20 trips of 50 iron each the cart is on its way back with 50 more
ReturningToFull ==
    [Constructed EXCEPT
        !.station.storage = Stored(1000, 0, 0),
        !.carts[1].x = station_pos.x - 160 * Deci,
        !.carts[1].state = "returning",
        !.carts[1].contents = Holding(<<<<"iron", 50>>>>)]
\* the same cart later: the full station took nothing, the cart was reset to
\* mining with its 50 iron and has moved to 160 px from the mine
StrandedNearMine ==
    [Constructed EXCEPT
        !.station.storage = Stored(1000, 0, 0),
        !.carts[1].x = mine_pos.x + 160 * Deci,
        !.carts[1].contents = Holding(<<<<"iron", 50>>>>)]
\* the cart brought 30 iron and 20 copper to the station and was then
\* converted to a market cart; the sale of copper has been switched off
LoadingAtStation ==
    [Constructed EXCEPT
        !.station.storage = Stored(30, 20, 0),
        !.resource_selling_enabled["copper"] = FALSE,
        !.carts[1].cart_type = "market",
        !.carts[1].state = "loading"]
\* a market cart that loaded 30 iron, 19 copper and 1 gold of a stock of
\* 30, 19 and 2 has reached the market in steps of 10 px; the last price
\* update was 4 s before the last update
SellingAtMarket ==
    [Constructed EXCEPT
        !.station.storage = Stored(0, 0, 1),
        !.carts[1].x = market_pos.x,
        !.carts[1].cart_type = "market",
        !.carts[1].state = "selling",
        !.carts[1].contents = Holding(<<<<"iron", 30>>, <<"copper", 19>>, <<"gold", 1>>>>),
        !.last_update = 40]
\* sales have brought 7250; the capacity upgrade (1000) and two speed upgrades
\* (1500, 2250) were bought; the cart, converted back to mining at the empty
\* station, holds nothing
Rich ==
    [Constructed EXCEPT
        !.station.money = 3500 * Cent,
        !.station.upgrade_costs["capacity"] = 1500,
        !.station.upgrade_costs["speed"] = 3375,
        !.cart_stats["capacity"] = 75 * Milli,
        !.cart_stats["speed"] = 169 * Milli,
        !.carts[1].capacity = 75 * Milli,
        !.carts[1].speed = 169 * Milli]

\* sales have brought 2100; the capacity upgrade was bought twice (1000, 1500):
\* cart_stats holds 50 * 1.5 * 1.5 = 112.5 and the cart int(112.5) = 112
TwiceUpgraded ==
    [Constructed EXCEPT
        !.station.money = 600 * Cent,
        !.station.upgrade_costs["capacity"] = 2250,
        !.cart_stats["capacity"] = 112 * Milli + Milli \div 2,
        !.carts[1].capacity = 112 * Milli]
\* the cart has delivered 50 iron and a market cart was added: in the tick
\* after, the mining cart has left for the mine and the market cart has
\* loaded the 50 iron
Fleet ==
    [Constructed EXCEPT
        !.station.money = 500 * Cent,
        !.carts = <<[NewCart(NewCartStats, "mining") EXCEPT
                        !.x = station_pos.x - 10 * Deci],
                    [NewCart(NewCartStats, "market") EXCEPT
                        !.y = station_pos.y + OFFSET_STEP * Deci,
                        !.state = "selling",
                        !.contents = Holding(<<<<"iron", 50>>>>)]>>]
\* the first cart, on its way to the mine in steps of 10 px, is 10 px from it
OneStepFromMine ==
    [Constructed EXCEPT
        !.carts[1].x = mine_pos.x + POSITION_TOLERANCE * Deci]
\* a second mining cart has just been added
TwoMiners ==
    [Constructed EXCEPT
        !.station.money = 500 * Cent,
        !.carts = <<NewCart(NewCartStats, "mining"), NewCart(NewCartStats, "mining")>>]

\* the dict f over the resources, written out entry by entry
Entrywise(f) == ("iron" :> f["iron"]) @@ ("copper" :> f["copper"]) @@ ("gold" :> f["gold"])
\* the price updates of a run of ticks that are price_update_interval apart,
\* up to the time given, every one with the same draws
RECURSIVE PriceRun(_, _, _)
PriceRun(pe, until, forces) ==
    LET current_time == pe.last_price_update + price_update_interval * Deci
    IN IF current_time > until THEN pe
       ELSE LET next == update_market_prices(pe, current_time, forces)
            IN PriceRun([next EXCEPT !.market_prices = Entrywise(@),
                                     !.price_momentum = Entrywise(@),
                                     !.price_history = Entrywise(@)],
                        until, forces)
\* the cart was converted to a market cart at once and waits at the empty
\* station; in the 300 s since, 60 price updates have fired, the draws being
\* the highest for iron, the lowest for copper and 0 for gold; the last price
\* update was 4 s before the last update
PricesMoved ==
    LET pe == PriceRun([market_prices |-> Constructed.market_prices,
                        price_momentum |-> Constructed.price_momentum,
                        price_history |-> Constructed.price_history,
                        last_price_update |-> Constructed.last_price_update],
                       300 * Deci,
                       [r \in Resources |->
                           CASE r = "iron" -> PRICE_VOLATILITY
                             [] r = "copper" -> -PRICE_VOLATILITY
                             [] r = "gold" -> 0])
    IN [Constructed EXCEPT
           !.carts[1].cart_type = "market",
           !.carts[1].state = "loading",
           !.market_prices = pe.market_prices,
           !.price_momentum = pe.price_momentum,
           !.price_history = pe.price_history,
           !.last_price_update = pe.last_price_update,
           !.last_update = pe.last_price_update + 40]

Snapshots ==
    {Constructed, AtMine, ReturningToNearlyFull, ReturningToFull, StrandedNearMine,
     LoadingAtStation, SellingAtMarket, Rich, TwiceUpgraded, Fleet, TwoMiners,
     PricesMoved, OneStepFromMine}

Init ==
    \E g \in Snapshots :
        /\ carts = g.carts
        /\ station = g.station
        /\ cart_stats = g.cart_stats
        /\ market_prices = g.market_prices
        /\ price_momentum = g.price_momentum
        /\ price_history = g.price_history
        /\ last_update = g.last_update
        /\ last_price_update = g.last_price_update
        /\ resource_selling_enabled = g.resource_selling_enabled
        /\ last_call = NoCall
        /\ log = <<>>
        /\ commands = 0
        /\ ticks = 0

\* ---------------------------------------------------------------- update
PriceEngine ==
    [market_prices |-> market_prices, price_momentum |-> price_momentum,
     price_history |-> price_history, last_price_update |-> last_price_update]

\* the draws a tick makes: one roll per cart that runs the mining loop, one
\* random_force per resource when the price gate fires
RollChoices(delta_time) ==
    [i \in 1..Len(carts) |->
        IF Mines(carts[i], VerticalOffset(i)) THEN Rolls(carts[i], delta_time) ELSE {{}}]
ForceChoices(current_time) ==
    IF current_time - last_price_update >= price_update_interval * Deci
    THEN [Resources -> ForceSet]
    ELSE {[r \in Resources |-> 0]}
\* the functions f on 1..n with f[i] \in choices[i]
Draws(choices) ==
    { f \in [DOMAIN choices -> UNION {choices[i] : i \in DOMAIN choices}] :
        \A i \in DOMAIN choices : f[i] \in choices[i] }

\* update with the carts advanced before the prices are updated: a sale of
\* the tick is made at the prices of the tick before
update_carts_first(delta_time) ==
    /\ ticks < MaxTicks
    /\ ticks' = ticks + 1
    /\ LET current_time == last_update + delta_time
       IN \E forces \in ForceChoices(current_time) :
          \E rolls \in Draws(RollChoices(delta_time)) :
            LET pe == update_market_prices(PriceEngine, current_time, forces)
                w == UpdateCarts(1, [carts |-> carts, station |-> station, log |-> <<>>],
                                 resource_selling_enabled, market_prices,
                                 delta_time, rolls)
            IN /\ last_update' = current_time
               /\ market_prices' = pe.market_prices
               /\ price_momentum' = pe.price_momentum
               /\ price_history' = pe.price_history
               /\ last_price_update' = pe.last_price_update
               /\ carts' = w.carts
               /\ station' = w.station
               /\ log' = w.log
               /\ UNCHANGED <<cart_stats, resource_selling_enabled, last_call, commands>>

\* update(): delta_time is current_time - self.last_update
update(delta_time) ==
    /\ ticks < MaxTicks
    /\ ticks' = ticks + 1
    /\ LET current_time == last_update + delta_time
       IN \E forces \in ForceChoices(current_time) :
          \E rolls \in Draws(RollChoices(delta_time)) :
            LET pe == update_market_prices(PriceEngine, current_time, forces)
                w == UpdateCarts(1, [carts |-> carts, station |-> station, log |-> <<>>],
                                 resource_selling_enabled, pe.market_prices,
                                 delta_time, rolls)
            IN /\ last_update' = current_time
               /\ market_prices' = pe.market_prices
               /\ price_momentum' = pe.price_momentum
               /\ price_history' = pe.price_history
               /\ last_price_update' = pe.last_price_update
               /\ carts' = w.carts
               /\ station' = w.station
               /\ log' = w.log
               /\ UNCHANGED <<cart_stats, resource_selling_enabled, last_call, commands>>

\* -------------------------------------------------------------- commands
Call(op, arg, ok) == [op |-> op, arg |-> arg, ok |-> ok]

\* the test of the funds without the cost
AffordsAnything(money, cost) == money >= 0

\* self.station.money >= cost, for an int cost
Affords(money, cost) == money >= cost * Cent

\* add_cart without the test of the funds
add_cart_on_credit(cart_type) ==
    /\ commands < MaxCommands
    /\ Len(carts) < MaxCarts
    /\ commands' = commands + 1
    /\ station' = [station EXCEPT !.money = @ - cart_cost * Cent]
    /\ carts' = Append(carts, NewCart(cart_stats, cart_type))
    /\ last_call' = Call("add_cart", cart_type, TRUE)
    /\ UNCHANGED <<cart_stats, market_prices, price_momentum, price_history,
                   last_update, last_price_update, resource_selling_enabled, log, ticks>>

add_cart(cart_type) ==
    /\ commands < MaxCommands
    /\ Len(carts) < MaxCarts
    /\ commands' = commands + 1
    /\ IF Affords(station.money, cart_cost)
       THEN /\ station' = [station EXCEPT !.money = @ - cart_cost * Cent]
            /\ carts' = Append(carts, NewCart(cart_stats, cart_type))
            /\ last_call' = Call("add_cart", cart_type, TRUE)
       ELSE /\ UNCHANGED <<station, carts>>
            /\ last_call' = Call("add_cart", cart_type, FALSE)
    /\ UNCHANGED <<cart_stats, market_prices, price_momentum, price_history,
                   last_update, last_price_update, resource_selling_enabled, log, ticks>>

\* the index of the last cart of the given type, 0 when there is none
LastOfType(cs, cart_type) ==
    IF \E i \in 1..Len(cs) : cs[i].cart_type = cart_type
    THEN CHOOSE i \in 1..Len(cs) :
            /\ cs[i].cart_type = cart_type
            /\ \A j \in (i + 1)..Len(cs) : cs[j].cart_type # cart_type
    ELSE 0

\* the index of the first cart of the given type, 0 when there is none
FirstOfType(cs, cart_type) ==
    IF \E i \in 1..Len(cs) : cs[i].cart_type = cart_type
    THEN CHOOSE i \in 1..Len(cs) :
            /\ cs[i].cart_type = cart_type
            /\ \A j \in 1..(i - 1) : cs[j].cart_type # cart_type
    ELSE 0

\* a conversion that leaves the cart's state as it was
ConvertFirstKeepingState(cs, from_type, to_type, to_state) ==
    LET i == FirstOfType(cs, from_type)
    IN IF i = 0 THEN cs
       ELSE [cs EXCEPT ![i] = [@ EXCEPT !.cart_type = to_type, !.contents = <<>>]]

\* convert_to_mining / convert_to_market on the list of carts
ConvertFirst(cs, from_type, to_type, to_state) ==
    LET i == FirstOfType(cs, from_type)
    IN IF i = 0 THEN cs
       ELSE [cs EXCEPT ![i] = [@ EXCEPT !.cart_type = to_type, !.state = to_state,
                                        !.contents = <<>>]]

convert_to_mining ==
    /\ commands < MaxCommands
    /\ commands' = commands + 1
    /\ carts' = ConvertFirst(carts, "market", "mining", "mining")
    /\ last_call' = Call("convert_to_mining", "", FirstOfType(carts, "market") # 0)
    /\ UNCHANGED <<station, cart_stats, market_prices, price_momentum, price_history,
                   last_update, last_price_update, resource_selling_enabled, log, ticks>>

convert_to_market ==
    /\ commands < MaxCommands
    /\ commands' = commands + 1
    /\ carts' = ConvertFirst(carts, "mining", "market", "loading")
    /\ last_call' = Call("convert_to_market", "", FirstOfType(carts, "mining") # 0)
    /\ UNCHANGED <<station, cart_stats, market_prices, price_momentum, price_history,
                   last_update, last_price_update, resource_selling_enabled, log, ticks>>

\* round(cost * 1.5), halves up
NextCostRounded(cost) == (cost * 15 + 5) \div 10

\* int(cost * 1.5)
NextCost(cost) == (cost * 15) \div 10
\* old_value * multiplier (the multiplier in tenths)
UpgradedValue(old_value, multiplier) == (old_value * multiplier) \div 10
\* the loop body without int()
UpgradeCartNoInt(cart, upgrade_type, new_value) ==
    IF upgrade_type = "capacity" THEN [cart EXCEPT !.capacity = new_value]
    ELSE IF upgrade_type = "speed" THEN [cart EXCEPT !.speed = new_value]
    ELSE IF upgrade_type = "mining" THEN [cart EXCEPT !.mining_speed = new_value]
    ELSE cart

\* the loop body of upgrade over self.carts
UpgradeCart(cart, upgrade_type, new_value) ==
    IF upgrade_type = "capacity" THEN [cart EXCEPT !.capacity = IntPart(new_value)]
    ELSE IF upgrade_type = "speed" THEN [cart EXCEPT !.speed = new_value]
    ELSE IF upgrade_type = "mining" THEN [cart EXCEPT !.mining_speed = new_value]
    ELSE cart

\* upgrade with a kind outside the cost table taken as free: the call succeeds
upgrade_unknown_free(upgrade_type) ==
    /\ commands < MaxCommands
    /\ commands' = commands + 1
    /\ LET known == upgrade_type \in DOMAIN station.upgrade_costs
           cost == IF known THEN station.upgrade_costs[upgrade_type] ELSE 0
       IN IF Affords(station.money, cost)
          THEN /\ station' = IF known
                             THEN [station EXCEPT
                                      !.money = @ - cost * Cent,
                                      !.upgrade_costs[upgrade_type] = NextCost(cost)]
                             ELSE station
               /\ IF upgrade_type \in DOMAIN cart_stats
                  THEN LET new_value ==
                               UpgradedValue(cart_stats[upgrade_type],
                                             station.upgrade_multipliers[upgrade_type])
                       IN /\ cart_stats' = [cart_stats EXCEPT ![upgrade_type] = new_value]
                          /\ carts' = [i \in 1..Len(carts) |->
                                          UpgradeCart(carts[i], upgrade_type, new_value)]
                  ELSE UNCHANGED <<cart_stats, carts>>
               /\ last_call' = Call("upgrade", upgrade_type, TRUE)
          ELSE /\ UNCHANGED <<station, cart_stats, carts>>
               /\ last_call' = Call("upgrade", upgrade_type, FALSE)
    /\ UNCHANGED <<market_prices, price_momentum, price_history,
                   last_update, last_price_update, resource_selling_enabled, log, ticks>>

\* upgrade with the multiplier of processing and storage applied to the
\* station's processing_speed and storage_capacity
upgrade_applied_to_station(upgrade_type) ==
    /\ commands < MaxCommands
    /\ commands' = commands + 1
    /\ IF upgrade_type \notin DOMAIN station.upgrade_costs
       THEN /\ UNCHANGED <<station, cart_stats, carts>>
            /\ last_call' = Call("upgrade", upgrade_type, FALSE)
       ELSE LET cost == station.upgrade_costs[upgrade_type]
                multiplier == station.upgrade_multipliers[upgrade_type]
                paid == [station EXCEPT
                            !.money = @ - cost * Cent,
                            !.upgrade_costs[upgrade_type] = NextCost(cost)]
            IN IF Affords(station.money, cost)
               THEN /\ station' =
                          IF upgrade_type = "storage"
                          THEN [paid EXCEPT !.storage_capacity =
                                                UpgradedValue(@, multiplier)]
                          ELSE IF upgrade_type = "processing"
                          THEN [paid EXCEPT !.processing_speed =
                                                UpgradedValue(@, multiplier)]
                          ELSE paid
                    /\ IF upgrade_type \in DOMAIN cart_stats
                       THEN LET new_value ==
                                    UpgradedValue(cart_stats[upgrade_type], multiplier)
                            IN /\ cart_stats' = [cart_stats EXCEPT ![upgrade_type] = new_value]
                               /\ carts' = [i \in 1..Len(carts) |->
                                               UpgradeCart(carts[i], upgrade_type, new_value)]
                       ELSE UNCHANGED <<cart_stats, carts>>
                    /\ last_call' = Call("upgrade", upgrade_type, TRUE)
               ELSE /\ UNCHANGED <<station, cart_stats, carts>>
                    /\ last_call' = Call("upgrade", upgrade_type, FALSE)
    /\ UNCHANGED <<market_prices, price_momentum, price_history,
                   last_update, last_price_update, resource_selling_enabled, log, ticks>>

upgrade(upgrade_type) ==
    /\ commands < MaxCommands
    /\ commands' = commands + 1
    /\ IF upgrade_type \notin DOMAIN station.upgrade_costs
       THEN /\ UNCHANGED <<station, cart_stats, carts>>
            /\ last_call' = Call("upgrade", upgrade_type, FALSE)
       ELSE LET cost == station.upgrade_costs[upgrade_type]
                multiplier == station.upgrade_multipliers[upgrade_type]
            IN IF Affords(station.money, cost)
               THEN /\ station' = [station EXCEPT
                                      !.money = @ - cost * Cent,
                                      !.upgrade_costs[upgrade_type] = NextCost(cost)]
                    /\ IF upgrade_type \in DOMAIN cart_stats
                       THEN LET new_value ==
                                    UpgradedValue(cart_stats[upgrade_type], multiplier)
                            IN /\ cart_stats' = [cart_stats EXCEPT ![upgrade_type] = new_value]
                               /\ carts' = [i \in 1..Len(carts) |->
                                               UpgradeCart(carts[i], upgrade_type, new_value)]
                       ELSE UNCHANGED <<cart_stats, carts>>
                    /\ last_call' = Call("upgrade", upgrade_type, TRUE)
               ELSE /\ UNCHANGED <<station, cart_stats, carts>>
                    /\ last_call' = Call("upgrade", upgrade_type, FALSE)
    /\ UNCHANGED <<market_prices, price_momentum, price_history,
                   last_update, last_price_update, resource_selling_enabled, log, ticks>>

\* run(): a click on toggle_<resource>
toggle(resource) ==
    /\ commands < MaxCommands
    /\ commands' = commands + 1
    /\ resource_selling_enabled' =
           [resource_selling_enabled EXCEPT ![resource] = ~@]
    /\ last_call' = Call("toggle", resource, TRUE)
    /\ UNCHANGED <<carts, station, cart_stats, market_prices, price_momentum,
                   price_history, last_update, last_price_update, log, ticks>>

\* the kinds upgrade is called with: the five of the cost table and one it lacks
UpgradeInputs == UpgradeKinds \cup {"armor"}

Next ==
    \/ \E delta_time \in DtSet : update(delta_time)
    \/ \E cart_type \in {"mining", "market"} : add_cart(cart_type)
    \/ convert_to_mining
    \/ convert_to_market
    \/ \E upgrade_type \in UpgradeInputs : upgrade(upgrade_type)
    \/ \E resource \in Resources : toggle(resource)

Spec == Init /\ [][Next]_vars

\* ------------------------------------------------- a late state of a game
\* the capacity upgrade was bought twice and a market cart added after it,
\* with capacity 112.5; it loaded 112.5 of the 113 iron in the storage, sold
\* them for 1125 and is back at the station, 0.5 iron being left there; the
\* mining cart is on its way back with a full load
HalfUnitInStorage ==
    [Constructed EXCEPT
        !.station.money = 1125 * Cent,
        !.station.upgrade_costs["capacity"] = 2250,
        !.station.storage = [r \in Resources |-> IF r = "iron" THEN Milli \div 2 ELSE 0],
        !.cart_stats["capacity"] = 112 * Milli + Milli \div 2,
        !.carts = <<[NewCart(NewCartStats, "mining") EXCEPT
                        !.capacity = 112 * Milli,
                        !.x = mine_pos.x + 260 * Deci,
                        !.state = "returning",
                        !.contents = Holding(<<<<"iron", 38>>, <<"copper", 37>>,
                                               <<"gold", 37>>>>)],
                    [NewCart(NewCartStats, "market") EXCEPT
                        !.capacity = 112 * Milli + Milli \div 2,
                        !.y = station_pos.y + OFFSET_STEP * Deci,
                        !.contents = Holding(<<<<"iron", 0>>>>)]>>]

\* the runs that start from the states above or from this late state
InitLate ==
    \E g \in Snapshots \cup {HalfUnitInStorage} :
        /\ carts = g.carts
        /\ station = g.station
        /\ cart_stats = g.cart_stats
        /\ market_prices = g.market_prices
        /\ price_momentum = g.price_momentum
        /\ price_history = g.price_history
        /\ last_update = g.last_update
        /\ last_price_update = g.last_price_update
        /\ resource_selling_enabled = g.resource_selling_enabled
        /\ last_call = NoCall
        /\ log = <<>>
        /\ commands = 0
        /\ ticks = 0

SpecLate == InitLate /\ [][Next]_vars

\* ------------------------------------------- carts about to reach a target
\* the cart is on its way back from its first trip with 50 iron, in steps of
\* 10 px, and 20 px from the station
NearStation ==
    [Constructed EXCEPT
        !.carts[1].x = station_pos.x - 20 * Deci,
        !.carts[1].state = "returning",
        !.carts[1].contents = Holding(<<<<"iron", 50>>>>)]
\* a market cart with 50 iron left the station by one step of 10 px; the
\* speed upgrade was then bought with the money of earlier sales (speed 130),
\* and 46 steps of 13 px have brought the cart to 12 px from the market
NearMarket ==
    [Constructed EXCEPT
        !.station.money = 0,
        !.station.upgrade_costs["speed"] = 2250,
        !.cart_stats["speed"] = 130 * Milli,
        !.carts[1].speed = 130 * Milli,
        !.carts[1].x = market_pos.x - 12 * Deci,
        !.carts[1].cart_type = "market",
        !.carts[1].state = "selling",
        !.carts[1].contents = Holding(<<<<"iron", 50>>>>)]
\* the same with two speed upgrades (speed 169): 41 steps of 10 px, 2 of 13 px
\* and 10 of 16.9 px have brought the cart to 15 px from the market
NearMarketFast ==
    [Constructed EXCEPT
        !.station.money = 0,
        !.station.upgrade_costs["speed"] = 3375,
        !.cart_stats["speed"] = 169 * Milli,
        !.carts[1].speed = 169 * Milli,
        !.carts[1].x = market_pos.x - 15 * Deci,
        !.carts[1].cart_type = "market",
        !.carts[1].state = "selling",
        !.carts[1].contents = Holding(<<<<"iron", 50>>>>)]

InitNear ==
    \E g \in {NearStation, NearMarket, NearMarketFast, Fleet} :
        /\ carts = g.carts
        /\ station = g.station
        /\ cart_stats = g.cart_stats
        /\ market_prices = g.market_prices
        /\ price_momentum = g.price_momentum
        /\ price_history = g.price_history
        /\ last_update = g.last_update
        /\ last_price_update = g.last_price_update
        /\ resource_selling_enabled = g.resource_selling_enabled
        /\ last_call = NoCall
        /\ log = <<>>
        /\ commands = 0
        /\ ticks = 0

\* the movement step cart.speed * delta_time of every cart is above 0 and
\* below twice POSITION_TOLERANCE
SmallSteps(delta_time) ==
    \A i \in 1..Len(carts) :
        /\ (carts[i].speed * delta_time) \div Milli > 0
        /\ (carts[i].speed * delta_time) \div Milli < 2 * POSITION_TOLERANCE * Deci
\* a call of update() with such a frame time
SmallTick == \E delta_time \in DtSet : SmallSteps(delta_time) /\ update(delta_time)

NextSmall ==
    \/ SmallTick
    \/ \E cart_type \in {"mining", "market"} : add_cart(cart_type)
    \/ convert_to_mining
    \/ convert_to_market
    \/ \E upgrade_type \in UpgradeInputs : upgrade(upgrade_type)
    \/ \E resource \in Resources : toggle(resource)

\* the steps of SmallTick, told by the count of calls: update() is the only
\* operation that advances ticks, and a call of it is possible whenever
\* ticks < MaxTicks
UpdateCalled ==
    /\ \E delta_time \in DtSet : SmallSteps(delta_time)
    /\ ticks < MaxTicks
    /\ ticks' = ticks + 1

\* run() calls update() in every turn of its loop
SpecSmall == InitNear /\ [][NextSmall]_vars /\ WF_ticks(UpdateCalled)

\* ================================================================ claims
\* the entries of the last update's log of the given kind
Entries(kind) == {log[n] : n \in {m \in 1..Len(log) : log[m].kind = kind}}
Amount(cart, r) == DictGet(cart.contents, r, 0)

\* C1: every cart holds at most its capacity: sum(contents) <= capacity in
\* every state, also after a mining tick that extracts several resources.
C1_ContentsWithinCapacity ==
    \A i \in 1..Len(carts) : get_contents_amount(carts[i]) <= carts[i].capacity

\* C2: transfer_to_station discards nothing: for every resource, the cart's
\* amount plus the station's is the same before and after the transfer.
C2_TransferKeepsUnits ==
    \A e \in Entries("transfer") : \A r \in Resources :
        Amount(e.cart0, r) + e.station0.storage[r]
            = Amount(e.cart1, r) + e.station1.storage[r]

\* C3: the station never stores more than storage_capacity in total and never
\* a negative amount of a resource, after every cart's call of every update.
C3_StorageWithinCapacity ==
    /\ SumStorage(station.storage) <= station.storage_capacity
    /\ \A r \in Resources : station.storage[r] >= 0
    /\ \A n \in 1..Len(log) :
        /\ SumStorage(log[n].station1.storage) <= log[n].station1.storage_capacity
        /\ \A r \in Resources : log[n].station1.storage[r] >= 0
\* a cart holding two resources, more in total than the station's free space,
\* has transferred
C3_Witness ==
    \E e \in Entries("transfer") :
        /\ Amount(e.cart0, "iron") > 0
        /\ Amount(e.cart0, "copper") > 0
        /\ get_contents_amount(e.cart0)
               > e.station0.storage_capacity - SumStorage(e.station0.storage)
        /\ SumStorage(e.station1.storage) = e.station1.storage_capacity

\* C4: a withdrawal moves no unit of a resource whose sale is disabled: the
\* station's and the cart's amount of it are unchanged.
C4_DisabledNotWithdrawn ==
    \A e \in Entries("load") : \A r \in Resources :
        ~e.enabled[r] =>
            /\ e.station1.storage[r] = e.station0.storage[r]
            /\ Amount(e.cart1, r) = Amount(e.cart0, r)
\* a withdrawal loaded something while a stocked resource was disabled
C4_Witness ==
    \E e \in Entries("load") :
        /\ e.ok
        /\ \E r \in Resources : ~e.enabled[r] /\ e.station0.storage[r] > 0

\* C5 as claimed: a full mining cart in state mining leaves that state in the
\* next update, wherever it is.
C5_FullCartLeavesMining ==
    \A n \in 1..Len(log) :
        (/\ log[n].cart0.cart_type = "mining"
         /\ log[n].cart0.state = "mining"
         /\ is_full(log[n].cart0))
        => log[n].cart1.state = "returning"
\* C5 amended: a full mining cart in state mining becomes returning in the
\* next update if it is within the tolerance of its mine target; elsewhere it
\* stays in mining and moves toward the mine.
C5_FullCartAtMineLeavesMining ==
    \A n \in 1..Len(log) :
        (/\ log[n].cart0.cart_type = "mining"
         /\ log[n].cart0.state = "mining"
         /\ get_contents_amount(log[n].cart0) >= log[n].cart0.capacity)
        => IF Dist2(log[n].cart0, Target(mine_pos, VerticalOffset(log[n].i)))
                  < (POSITION_TOLERANCE * Deci) * (POSITION_TOLERANCE * Deci)
           THEN log[n].cart1.state = "returning"
           ELSE log[n].cart1.state = "mining" /\ log[n].kind = "move"
\* a cart that came to the mine already full has become returning
C5_Witness ==
    \E e \in Entries("mine") :
        /\ e.cart0.state = "mining"
        /\ get_contents_amount(e.cart0) >= e.cart0.capacity
        /\ e.cart1.state = "returning"

\* the units a withdrawal took out of the station
Withdrawn(e) == SumStorage(e.station0.storage) - SumStorage(e.station1.storage)
NothingSellable(e) ==
    \A r \in Resources : e.station0.storage[r] = 0 \/ ~e.enabled[r]

C7_SaleRevenue ==
    \A e \in Entries("sell") :
        /\ e.station1.money - e.station0.money
              = SalePrice(market_prices["iron"], Amount(e.cart0, "iron"))
                + SalePrice(market_prices["copper"], Amount(e.cart0, "copper"))
                + SalePrice(market_prices["gold"], Amount(e.cart0, "gold"))
        /\ \A r \in Resources : Amount(e.cart1, r) = 0
        /\ e.station1.storage = e.station0.storage
        /\ e.prices = market_prices
\* a cart with several resources was sold at prices that have moved
C7_Witness ==
    \E e \in Entries("sell") :
        /\ Amount(e.cart0, "iron") > 0
        /\ Amount(e.cart0, "gold") > 0
        /\ market_prices["iron"] # base_value("iron") * Cent
        /\ e.station1.money > e.station0.money

\* the step is a call of upgrade with the given kind
UpgradeCalled(kind) ==
    /\ commands' # commands
    /\ last_call'.op = "upgrade"
    /\ last_call'.arg = kind

\* C8: an upgrade call with money below the kind's cost fails and changes
\* neither the station (money, costs, multipliers) nor cart_stats nor a cart.
C8_UnaffordableUpgrade ==
    [][\A kind \in UpgradeKinds :
          (UpgradeCalled(kind) /\ station.money < station.upgrade_costs[kind] * Cent)
          => /\ ~last_call'.ok
             /\ station' = station
             /\ cart_stats' = cart_stats
             /\ carts' = carts]_vars
\* upgrade("capacity") has failed for lack of funds
C8_Witness ==
    /\ last_call = [op |-> "upgrade", arg |-> "capacity", ok |-> FALSE]
    /\ station.money < station.upgrade_costs["capacity"] * Cent

Upgraded(kind) == UpgradeCalled(kind) /\ last_call'.ok

\* C10 as claimed: a successful purchase multiplies the kind's cost by 1.5 and
\* leaves the other costs alone.
C10_CostTimesOneAndAHalf ==
    [][\A kind \in UpgradeKinds :
          Upgraded(kind)
          => /\ 2 * station'.upgrade_costs[kind] = 3 * station.upgrade_costs[kind]
             /\ \A other \in UpgradeKinds \ {kind} :
                   station'.upgrade_costs[other] = station.upgrade_costs[other]]_vars
\* C10 amended: a successful purchase replaces the kind's cost by
\* int(cost x 1.5), the product truncated to an integer, and leaves the other
\* costs alone.
C10_CostEscalatesTruncated ==
    [][\A kind \in UpgradeKinds :
          Upgraded(kind)
          => /\ 2 * station'.upgrade_costs[kind] <= 3 * station.upgrade_costs[kind]
             /\ 3 * station.upgrade_costs[kind] < 2 * station'.upgrade_costs[kind] + 2
             /\ \A other \in UpgradeKinds \ {kind} :
                   station'.upgrade_costs[other] = station.upgrade_costs[other]]_vars
\* an odd cost was escalated: 3375 to 5062
C10_Witness ==
    /\ last_call = [op |-> "upgrade", arg |-> "speed", ok |-> TRUE]
    /\ station.upgrade_costs["speed"] % 2 = 0
    /\ (station.upgrade_costs["speed"] * 2) % 3 # 0

\* C11: cart_stats is one baseline for all carts: any two carts of the list
\* have the same capacity, speed and mining_speed, whether they were there
\* when the upgrades were bought or were spawned later, and every capacity is
\* a whole number.
C11_SharedBaseline ==
    /\ \A i, j \in 1..Len(carts) :
          /\ carts[i].capacity = carts[j].capacity
          /\ carts[i].speed = carts[j].speed
          /\ carts[i].mining_speed = carts[j].mining_speed
    /\ \A i \in 1..Len(carts) : carts[i].capacity % Milli = 0

\* C12: the station's money is never negative: not in any state reached by
\* ticks, spawns, conversions, upgrades and toggles in any order, and not
\* after any cart's call inside an update.
C12_MoneyNeverNegative ==
    /\ station.money >= 0
    /\ \A n \in 1..Len(log) : log[n].station1.money >= 0
\* a purchase has taken the last of the money
C12_Witness ==
    /\ last_call.op \in {"upgrade", "add_cart"}
    /\ last_call.ok
    /\ station.money = 0

\* the step is a call of add_cart with the given role
AddCalled(role) ==
    /\ commands' # commands
    /\ last_call'.op = "add_cart"
    /\ last_call'.arg = role

\* C13: add_cart with money < 500 returns False and changes neither the
\* station nor the list of carts; with money >= 500 it returns True, takes
\* exactly 500 and appends one cart at the end of the list, at the station's
\* position, with empty contents, the requested role and the role's initial
\* state (mining / loading), the carts already there being unchanged.
C13_SpawnCart ==
    [][\A role \in {"mining", "market"} :
          AddCalled(role)
          => IF station.money < cart_cost * Cent
             THEN /\ ~last_call'.ok
                  /\ station' = station
                  /\ carts' = carts
             ELSE /\ last_call'.ok
                  /\ station' = [station EXCEPT !.money = @ - cart_cost * Cent]
                  /\ Len(carts') = Len(carts) + 1
                  /\ SubSeq(carts', 1, Len(carts)) = carts
                  /\ LET cart == carts'[Len(carts')]
                     IN /\ cart.x = station_pos.x
                        /\ cart.y = station_pos.y
                        /\ cart.contents = <<>>
                        /\ cart.cart_type = role
                        /\ cart.state = IF role = "mining" THEN "mining"
                                                          ELSE "loading"]_vars
\* a market cart has been spawned behind a cart that holds ore
C13_Witness ==
    /\ last_call = [op |-> "add_cart", arg |-> "market", ok |-> TRUE]
    /\ Len(carts) = 2
    /\ carts[1].contents # <<>>
    /\ carts[2].cart_type = "market"
    /\ carts[2].state = "loading"

\* the two conversions: the command, the role it gives and the role's
\* initial state
Conversions ==
    {[op |-> "convert_to_mining", role |-> "mining", state |-> "mining"],
     [op |-> "convert_to_market", role |-> "market", state |-> "loading"]}

\* C14: a conversion changes exactly the first cart of the list whose role is
\* not the target role: it gets the target role, the role's initial state and
\* empty contents; the other carts and the station (money, storage) are
\* unchanged, and when every cart has the target role nothing changes.
C14_ConvertFirstOther ==
    [][\A c \in Conversions :
          (commands' # commands /\ last_call'.op = c.op)
          => /\ station' = station
             /\ Len(carts') = Len(carts)
             /\ LET others == {i \in 1..Len(carts) : carts[i].cart_type # c.role}
                IN IF others = {}
                   THEN carts' = carts
                   ELSE LET first == CHOOSE i \in others : \A j \in others : i <= j
                        IN /\ carts'[first] = [carts[first] EXCEPT
                                                   !.cart_type = c.role,
                                                   !.state = c.state,
                                                   !.contents = <<>>]
                           /\ \A i \in 1..Len(carts) :
                                 i # first => carts'[i] = carts[i]]_vars
\* the second cart, a market cart that had loaded at the station, has been
\* converted to mining and holds nothing; the first cart is a mining cart
C14_Witness ==
    /\ last_call.op = "convert_to_mining"
    /\ last_call.ok
    /\ Len(carts) = 2
    /\ carts[1].cart_type = "mining"
    /\ carts[2].cart_type = "mining"
    /\ carts[2].state = "mining"
    /\ carts[2].contents = <<>>
    /\ carts[2].y = station_pos.y + OFFSET_STEP * Deci

\* C15: every resource's price is between half and twice its base value, at
\* construction and after any number of price updates with any draws.
C15_PriceWithinBounds ==
    \A r \in Resources :
        /\ base_value(r) * Cent <= 2 * market_prices[r]
        /\ market_prices[r] <= 2 * base_value(r) * Cent
\* a price update has just left iron at twice its base value with its
\* momentum still upward, and copper at half with its momentum downward
C15_Witness ==
    /\ ticks > 0
    /\ last_price_update = last_update
    /\ market_prices["iron"] = 2 * base_value("iron") * Cent
    /\ price_momentum["iron"] > 0
    /\ 2 * market_prices["copper"] = base_value("copper") * Cent
    /\ price_momentum["copper"] < 0

\* the step is an update whose price gate has fired
PricesUpdated == last_price_update' # last_price_update

\* C16: every resource's price history has exactly PRICE_HISTORY_LENGTH
\* entries in every state, and a price update drops the oldest entry, moves
\* every other one place down and puts the new current price last.
C16_HistoryFIFO ==
    /\ [](\A r \in Resources : Len(price_history[r]) = PRICE_HISTORY_LENGTH)
    /\ [][PricesUpdated
          => \A r \in Resources :
                /\ \A n \in 1..(PRICE_HISTORY_LENGTH - 1) :
                      price_history'[r][n] = price_history[r][n + 1]
                /\ price_history'[r][PRICE_HISTORY_LENGTH] = market_prices'[r]]_vars
\* a price update has shifted a history whose entries differ
C16_Witness ==
    /\ ticks > 0
    /\ last_price_update = last_update
    /\ price_history["iron"][1] # price_history["iron"][2]
    /\ price_history["iron"][1] # base_value("iron") * Cent
    /\ price_history["iron"][PRICE_HISTORY_LENGTH] = market_prices["iron"]

\* C17: the price update is gated by the time: a call of update less than
\* price_update_interval after the last price update leaves prices, momentum,
\* histories and the timer alone; a call at or after it updates every
\* resource once (each history moves on by one entry, the new price) and
\* sets the timer to the time of the call.  So two price updates in a row
\* are at least price_update_interval apart, and no step updates some
\* resources and not the others.
C17_PriceUpdateGated ==
    [][(ticks' # ticks)
       => IF last_update' - last_price_update < price_update_interval * Deci
          THEN /\ market_prices' = market_prices
               /\ price_momentum' = price_momentum
               /\ price_history' = price_history
               /\ last_price_update' = last_price_update
          ELSE /\ last_price_update' = last_update'
               /\ last_price_update' - last_price_update >= price_update_interval * Deci
               /\ \A r \in Resources :
                     price_history'[r] = Append(Tail(price_history[r]), market_prices'[r])]_vars
\* a call of update 4.1 s after the last price update, which left the prices
\* alone, was followed by one 5.7 s after it, which has updated them
C17_Witness ==
    /\ ticks = 2
    /\ last_price_update = last_update
    /\ price_history["copper"][1] # price_history["copper"][2]
    /\ price_history["copper"][PRICE_HISTORY_LENGTH] = market_prices["copper"]
    /\ price_momentum["gold"] # 0

\* C18: a successful upgrade of kind processing or storage only takes the
\* money and raises that kind's cost: the station's storage_capacity,
\* processing_speed, multipliers and storage, cart_stats and every cart are
\* unchanged.
C18_InertUpgrade ==
    [][\A kind \in {"processing", "storage"} :
          Upgraded(kind)
          => /\ station'.money = station.money - station.upgrade_costs[kind] * Cent
             /\ station'.upgrade_costs[kind] > station.upgrade_costs[kind]
             /\ station'.storage_capacity = station.storage_capacity
             /\ station'.processing_speed = station.processing_speed
             /\ station'.upgrade_multipliers = station.upgrade_multipliers
             /\ station'.storage = station.storage
             /\ cart_stats' = cart_stats
             /\ carts' = carts]_vars
\* the storage upgrade was bought and the capacity of the storage is as built
C18_Witness ==
    /\ last_call = [op |-> "upgrade", arg |-> "storage", ok |-> TRUE]
    /\ station.upgrade_costs["storage"] > NewStation.upgrade_costs["storage"]
    /\ station.storage_capacity = NewStation.storage_capacity

\* C19: an upgrade call with a kind that the cost table lacks fails, whatever
\* the money: it returns False and leaves the station (money, costs,
\* multipliers), cart_stats and every cart unchanged.
C19_UnknownUpgradeKind ==
    [][\A kind \in UpgradeInputs :
          (UpgradeCalled(kind) /\ kind \notin DOMAIN station.upgrade_costs)
          => /\ ~last_call'.ok
             /\ station' = station
             /\ cart_stats' = cart_stats
             /\ carts' = carts]_vars
\* upgrade("armor") has failed with enough money for any upgrade of the table
C19_Witness ==
    /\ last_call = [op |-> "upgrade", arg |-> "armor", ok |-> FALSE]
    /\ \A kind \in UpgradeKinds : station.money >= station.upgrade_costs[kind] * Cent

\* C20: a sale is made at the prices of the tick in which the cart arrives at
\* the market, and the tick's price update comes before any cart is
\* advanced: the revenue of a sale is the sum of amount x price at the prices
\* the tick leaves behind.  The carts are advanced one after another in the
\* order of the list, each on the station as the cart before left it.
C20_SaleAtArrivalPrice ==
    [][(ticks' # ticks)
       => /\ Len(log') = Len(carts)
          /\ \A n \in 1..Len(log') :
                /\ log'[n].i = n
                /\ log'[n].cart0 = carts[n]
                /\ log'[n].cart1 = carts'[n]
                /\ log'[n].station0 = IF n = 1 THEN station ELSE log'[n - 1].station1
                /\ n = Len(log') => log'[n].station1 = station'
                /\ log'[n].kind = "sell"
                   => log'[n].station1.money - log'[n].station0.money
                         = SalePrice(market_prices'["iron"], Amount(carts[n], "iron"))
                           + SalePrice(market_prices'["copper"], Amount(carts[n], "copper"))
                           + SalePrice(market_prices'["gold"], Amount(carts[n], "gold"))]_vars
\* a cart has sold its load in a tick whose price update moved all three
\* prices away from the prices of the tick before (the base values)
C20_Witness ==
    /\ ticks > 0
    /\ last_price_update = last_update
    /\ \A r \in Resources : market_prices[r] # base_value(r) * Cent
    /\ \A r \in Resources : price_history[r][PRICE_HISTORY_LENGTH - 1] = base_value(r) * Cent
    /\ \E e \in Entries("sell") :
          /\ e.cart0.contents # <<>>
          /\ e.station1.money > e.station0.money

\* the target that the call logged in e measured the cart's distance to
TargetOf(e) ==
    Target(IF e.cart0.cart_type = "mining"
           THEN (IF e.cart0.state = "mining" THEN mine_pos ELSE station_pos)
           ELSE (IF e.cart0.state = "loading" THEN station_pos ELSE market_pos),
           VerticalOffset(e.i))
Tolerance2 == (POSITION_TOLERANCE * Deci) * (POSITION_TOLERANCE * Deci)

\* C21: a cart's call divides by the distance to its target only when that
\* distance is at least POSITION_TOLERANCE, so never by zero: the calls that
\* moved the cart started at a distance >= the tolerance (exactly the
\* tolerance included), and the calls that treated the cart as arrived
\* (mining, transfer, loading, sale) started at a distance below it (zero
\* included).
C21_NormalizeOnlyFarFromTarget ==
    \A n \in 1..Len(log) :
        LET e == log[n]
        IN /\ e.kind = "move" => Dist2(e.cart0, TargetOf(e)) >= Tolerance2
           /\ e.kind \in {"mine", "transfer", "load", "sell"}
                 => Dist2(e.cart0, TargetOf(e)) < Tolerance2
           /\ e.kind \in {"move", "mine", "transfer", "load", "sell"}
\* a cart exactly POSITION_TOLERANCE from the mine was moved, onto the mine,
\* and in the next tick, at distance zero, it mined
C21_Witness ==
    /\ ticks = 2
    /\ \E e \in Entries("mine") :
          /\ Dist2(e.cart0, TargetOf(e)) = 0
          /\ e.cart0.contents = <<>>
          /\ e.cart0.x = mine_pos.x
    /\ last_update = 2

\* C22: role and state agree in every state: a mining cart is in state
\* mining or returning, a market cart in state loading or selling, whatever
\* the order of ticks, spawns and conversions.
C22_RoleMatchesState ==
    \A i \in 1..Len(carts) :
        /\ carts[i].cart_type \in {"mining", "market"}
        /\ carts[i].cart_type = "mining" => carts[i].state \in {"mining", "returning"}
        /\ carts[i].cart_type = "market" => carts[i].state \in {"loading", "selling"}
\* a cart away from the station was converted to a market cart and
\* a tick has moved it toward the station
C22_Witness ==
    /\ last_call.op = "convert_to_market"
    /\ last_call.ok
    /\ Len(log) > 0
    /\ carts[1].cart_type = "market"
    /\ carts[1].state = "loading"
    /\ log[1].cart0.cart_type = "market"
    /\ log[1].kind = "move"
    /\ carts[1].x < station_pos.x

\* C23: a market cart in state loading holds nothing and one in state
\* selling holds at least one unit, in every state; so load_from_station
\* never returns early for a full cart of positive capacity.
C23_MarketCartLoad ==
    /\ \A i \in 1..Len(carts) :
          carts[i].cart_type = "market"
          => /\ carts[i].state = "loading" => get_contents_amount(carts[i]) = 0
             /\ carts[i].state = "selling" => get_contents_amount(carts[i]) >= Milli
    /\ \A e \in Entries("load") : e.cart0.capacity > 0 => ~is_full(e.cart0)

\* what the withdrawal logged in e took of resource r from the station
Moved(e, r) == e.station0.storage[r] - e.station1.storage[r]
\* the cart's free space when the withdrawal came to the j-th resource
SpaceAt(e, j) ==
    e.cart0.capacity - get_contents_amount(e.cart0)
        - (IF j > 1 THEN Moved(e, ResourceOrder[1]) ELSE 0)
        - (IF j > 2 THEN Moved(e, ResourceOrder[2]) ELSE 0)

\* C24: a withdrawal conserves units: for every resource the station loses
\* what the cart gains; what is moved of a resource on sale is the smaller of
\* the station's amount and the cart's free space at that point of the loop
\* (nothing of a resource not on sale); the cart ends with at most its
\* capacity and no amount of the station becomes negative.
C24_WithdrawalConserves ==
    \A e \in Entries("load") :
        /\ \A r \in Resources :
              /\ Amount(e.cart1, r) - Amount(e.cart0, r) = Moved(e, r)
              /\ e.station1.storage[r] >= 0
        /\ \A j \in 1..Len(ResourceOrder) :
              Moved(e, ResourceOrder[j])
                 = IF e.enabled[ResourceOrder[j]]
                   THEN Min(e.station0.storage[ResourceOrder[j]], SpaceAt(e, j))
                   ELSE 0
        /\ get_contents_amount(e.cart1) <= e.cart1.capacity
\* a cart took less of a resource than the station held: all its free space
C24_Witness ==
    \E e \in Entries("load") :
        /\ Moved(e, "iron") > 0
        /\ Moved(e, "iron") < e.station0.storage["iron"]
        /\ Moved(e, "iron") = e.cart0.capacity
        /\ e.cart1.state = "selling"

\* the shortest frame time and the step a cart makes in it
ShortestDt == CHOOSE d \in DtSet : \A other \in DtSet : d <= other
StepOf(cart) == (cart.speed * ShortestDt) \div Milli
\* the calls of update that cart number i needs to arrive at pos and be
\* served there: one per step while it is POSITION_TOLERANCE or more away,
\* and the call that finds it arrived
TicksToServe(i, pos) ==
    LET target == Target(pos, VerticalOffset(i))
    IN IF Arrived(carts[i], target) THEN 1
       ELSE (ISqrt(Dist2(carts[i], target)) - POSITION_TOLERANCE * Deci)
               \div StepOf(carts[i]) + 2
\* cart i is a mining cart on its way back / a market cart on its way to the
\* market, and the run has the calls of update left that it needs
Returning(i) ==
    /\ i <= Len(carts)
    /\ carts[i].cart_type = "mining"
    /\ carts[i].state = "returning"
    /\ ticks + TicksToServe(i, station_pos) <= MaxTicks
Selling(i) ==
    /\ i <= Len(carts)
    /\ carts[i].cart_type = "market"
    /\ carts[i].state = "selling"
    /\ ticks + TicksToServe(i, market_pos) <= MaxTicks
\* the last update served cart i at its target
Served(i, kind, state) ==
    /\ i <= Len(carts)
    /\ i <= Len(log)
    /\ log[i].kind = kind
    /\ carts[i].state = state

\* C25: when update keeps being called with steps above 0 and below twice
\* POSITION_TOLERANCE, a travelling cart arrives: a returning mining cart is
\* in the end served by transfer_to_station and is in state mining again, a
\* selling market cart by sell_cart_resources and is in state loading again,
\* unless a conversion takes the cart out of its role first; no cart swings
\* about its target for ever.
C25_TravellingCartArrives ==
    \A i \in 1..MaxCarts :
        /\ Returning(i) ~> (Served(i, "transfer", "mining")
                                \/ (i <= Len(carts) /\ carts[i].cart_type = "market"))
        /\ Selling(i) ~> (Served(i, "sell", "loading")
                              \/ (i <= Len(carts) /\ carts[i].cart_type = "mining"))
\* a market cart that a step had carried past the market has sold its load
C25_Witness ==
    /\ Served(1, "sell", "loading")
    /\ log[1].cart0.x > market_pos.x
    /\ log[1].cart0.contents # <<>>
    /\ station.money > 0

====
